---- MODULE Spec2Model ----
(***************************************************************************)
(* FlowOne session runtime.                                                *)
(*                                                                         *)
(*   FlowSession   (flows_runtime design, src/unnamed/part_000:104-147)    *)
(*   Session / SessionManager (src/backend/services/pipecat_runtime.py)    *)
(*                                                                         *)
(* Everything runs on one asyncio event loop.  A coroutine runs without    *)
(* interruption until it awaits something that is not ready; put() on an   *)
(* unbounded asyncio.Queue never suspends, get() suspends on an empty      *)
(* queue.  Hence every FlowSession / SessionManager call is one atomic     *)
(* action.  The tasks the calls create (Session.start, Session.close, the  *)
(* forwarding task pipe()) are made ready in the loop's FIFO ready queue   *)
(* and run one after the other, in that order, between the calls; a task   *)
(* suspended in get() is made ready again by the put that fills the queue. *)
(* Consumers that write to a websocket between two reads proceed at any    *)
(* time.                                                                   *)
(*                                                                         *)
(* SessionManager.close is a plain function that returns None              *)
(* (pipecat_runtime.py:366-375).  FlowSession.route and FlowSession.close  *)
(* evaluate  await session_manager.close(sid) : the call runs (the session *)
(* is popped and its close scheduled) and awaiting its None result raises  *)
(* TypeError, which ends the calling coroutine at that line.               *)
(***************************************************************************)
EXTENDS Integers, Sequences, FiniteSets, TLC

\* ------------------------------------------------------------------ bounds
MaxCalls == 3        \* calls of start / route / close made on the flow session
MaxEmits == 1        \* events pushed into the sessions of a flow with emit
MaxSpawns == 1       \* sessions spawned directly on the SessionManager
MaxPushes == 2       \* events pushed into directly spawned sessions with emit
MaxStarts == 3       \* multi-agent sessions started
MaxMessages == 4     \* messages sent to one multi-agent coordinator
MaxUpserts == 1      \* replacements of a stored flow graph
MaxTurns == 2        \* user messages processed by one session
ReplyTokens == 2     \* words of a generated reply

\* --------------------------------------------------------- sample flow data
None == "None"
NoSid == 0

\* flow.nodes in declaration order
FlowNodes == <<"node_1", "node_2", "node_3">>

NodeIds == {FlowNodes[i] : i \in DOMAIN FlowNodes}

\* node ids a caller may pass; node_x is not a node of the flow
Targets == NodeIds \cup {"node_x"}

\* nodes whose agentId get_agent resolves; node_3 names a deleted agent
AgentStore == {"node_1", "node_2"}

\* the session ids the callers of the SessionManager use
SessionIds == {1, 2}

\* the websocket consumers of SessionManager.events
SubIds == {1, 2}

VARIABLES
    active_node_id,       \* FlowSession.active_node_id
    current_session_id,   \* FlowSession._current_session_id (NoSid = None)
    q,                    \* FlowSession._q, events not yet consumed
    closed,               \* FlowSession._closed
    sessions,             \* SessionManager.sessions: registered id -> Session
    sess,                 \* every Session object created, indexed by id
    pipes,                \* the pipe() task created for each spawned id
    ready,                \* the event loop's ready queue of tasks, FIFO
    subs,                 \* the consumers of SessionManager.events()
    emits,                \* history: number of SessionManager.emit calls
    qlog,                 \* history: every event put on _q, in order
    ncalls,               \* history: number of calls made on the flow session
    last,                 \* history: the latest call and its outcome
    handoffs,             \* history: the handoffs requested while running
    active_coordinators,  \* api/multi_agent.py _active_coordinators: session id ->
                          \* the flow of the coordinator stored under it
    nstarts,              \* history: number of coordinators created
    coord_id,             \* the session id the latest coordinator was stored under
    flow_id,              \* MultiAgentCoordinator.flow_id of the latest coordinator
    flow,                 \* its flow: the graph it loaded, by name
    store,                \* memory.store: flow id -> the stored graph, by name
    nupserts,             \* history: number of upsert_flow_graph calls
    agents,               \* its agents, in the insertion order of the dict
    strategy,             \* its strategy
    current_agent_id,     \* its current_agent_id
    conversation_history, \* its conversation_history (role and agent_id of each entry)
    response,             \* history: the latest call on it, the message of a
                          \* process_message, and the agents that responded
    registered,           \* a session with an avatar leg: its id is in
                          \* SessionManager.sessions
    session,              \* that Session object
    tasks,                \* the tasks process_message created for it, in order
    timers,               \* the message tasks in asyncio.sleep(0.02), by deadline
    start_task,           \* where its Session.start is
    close_task,           \* where its Session.close is
    legs,                 \* the external legs running for it
    raised                \* history: an operation on it raised

\* the state of the session runtime and of the multi-agent coordination
RuntimeVars == <<active_node_id, current_session_id, q, closed, sessions, sess,
                 pipes, ready, subs, emits, qlog, ncalls, last, handoffs>>

CoordVars == <<active_coordinators, nstarts, coord_id, flow_id, flow, store,
               nupserts, agents,
               strategy, current_agent_id, conversation_history, response>>

TurnVars == <<registered, session, tasks, timers, start_task, close_task,
              legs, raised>>

vars == <<RuntimeVars, CoordVars, TurnVars>>

\* ------------------------------------------------------------------ events
\* call: history, the FlowSession call that published the event
\* text: the message text of a user turn, 0 when the event has none
\* seq:  history, the position of the event among the puts on the queue
\*       of the Session it was published to, 0 for an event put nowhere else
Event(type, sid, nodeId, from, to, call) ==
    [type |-> type, sessionId |-> sid, nodeId |-> nodeId,
     fromNodeId |-> from, toNodeId |-> to, call |-> call, text |-> 0, seq |-> 0]

\* ev("flow.started", flowSessionId=self.id, nodeId=node.id)
FlowStartedEv(node, call) == Event("flow.started", NoSid, node, None, None, call)

\* ev("route", flowSessionId=..., fromNodeId=..., toNodeId=..., reason=...)
RouteEv(from, to, call) == Event("route", NoSid, None, from, to, call)

\* {"type": "session.started", "sessionId": session_id, "persona": ...}
SessionStartedEv(sid) == Event("session.started", sid, None, None, None, 0)

\* {"type": "speech.final", "from": "user", "text": body.text}
SpeechFinalEv(text) == [Event("speech.final", NoSid, None, None, None, 0) EXCEPT !.text = text]

\* {"type": "error", "message": "session not found"}
NotFoundEv == Event("error", NoSid, None, None, None, 0)

\* ---------------------------------------------------------- Session object
\* Session.__init__ followed by the put_nowait of session.started in spawn
NewSession(sid) ==
    [queue |-> <<[SessionStartedEv(sid) EXCEPT !.seq = 1]>>,
     started |-> FALSE,
     puts |-> 1,            \* history: events put on the queue so far
     closes |-> 0]          \* history: runs of Session.close on the object

\* Session.close() on object o of the objects S, with enable_avatar False:
\* there is no Tavus session, pipeline task or transport to stop
SessionClose(S, o) == [S EXCEPT ![o].closes = @ + 1]

\* a task in the ready queue: Session.start, Session.close or pipe() of
\* the Session object obj
Task(kind, obj) == [kind |-> kind, obj |-> obj]

\* ---------------------------------------------------------- SessionManager
\* The manager state is M = [sessions, sess, ready]: the dict of registered
\* ids (id -> index of the Session object), the Session objects, and the
\* loop's ready queue the manager creates tasks in.

\* SessionManager.spawn: register a new Session under the id (replacing any
\* earlier entry), queue session.started, schedule Session.start
MgrSpawn(M, id) ==
    [sessions |-> (id :> (Len(M.sess) + 1)) @@ M.sessions,
     sess     |-> Append(M.sess, NewSession(id)),
     ready    |-> Append(M.ready, Task("start", Len(M.sess) + 1))]

\* SessionManager.close with the lookup done by get() in place of pop(): the
\* entry stays in the dict
MgrCloseGet(M, id) ==
    IF id \in DOMAIN M.sessions
    THEN [M EXCEPT !.ready = Append(@, Task("close", M.sessions[id]))]
    ELSE M

\* SessionManager.close: pop the id; if it was registered schedule
\* Session.close on the popped object.  Returns None either way.
MgrClose(M, id) ==
    IF id \in DOMAIN M.sessions
    THEN [sessions |-> [i \in (DOMAIN M.sessions) \ {id} |-> M.sessions[i]],
          sess     |-> M.sess,
          ready    |-> Append(M.ready, Task("close", M.sessions[id]))]
    ELSE M

\* ------------------------------------------------------------- FlowSession
\* The part of the state _start_node works on
FlowState == [active |-> active_node_id, cur |-> current_session_id,
              M |-> [sessions |-> sessions, sess |-> sess, ready |-> ready],
              pipes |-> pipes]

\* uuid4().hex[:6] in the spawned id: an id no Session object has had
FreshSid(S) == Len(S.M.sess) + 1

\* asyncio.create_task(pipe()) for the session just spawned
\* by: history, the FlowSession call that created the task
NewPipe(node_id) == [st |-> "scheduled", nodeId |-> node_id, by |-> ncalls + 1]

\* _start_node without the assignment to self._current_session_id
StartNodeKeepCur(S, node_id) ==
    IF node_id \notin NodeIds THEN [res |-> "RuntimeError", S |-> S]
    ELSE IF node_id \notin AgentStore THEN [res |-> "ValueError", S |-> S]
    ELSE LET M1 == MgrSpawn(S.M, FreshSid(S))
         IN  [res |-> "ok",
              S |-> [active |-> node_id,
                     cur    |-> S.cur,
                     M      |-> [M1 EXCEPT !.ready = Append(@, Task("pipe", FreshSid(S)))],
                     pipes  |-> Append(S.pipes, NewPipe(node_id))]]

\* FlowSession._start_node(node_id), from the state S.  next() without a
\* default raises StopIteration (RuntimeError in a coroutine) for an id that
\* is not in flow.nodes; get_agent returning None raises ValueError.
StartNode(S, node_id) ==
    IF node_id \notin NodeIds THEN [res |-> "RuntimeError", S |-> S]
    ELSE IF node_id \notin AgentStore THEN [res |-> "ValueError", S |-> S]
    ELSE LET M1 == MgrSpawn(S.M, FreshSid(S))
         IN  [res |-> "ok",
              S |-> [active |-> node_id,
                     cur    |-> FreshSid(S),
                     M      |-> [M1 EXCEPT !.ready = Append(@, Task("pipe", FreshSid(S)))],
                     pipes  |-> Append(S.pipes, NewPipe(node_id))]]

\* if self._current_session_id: await session_manager.close(...)
\* The call pops the session and schedules its close; its result is None,
\* and awaiting None raises TypeError.
AwaitClose(S) ==
    IF S.cur # NoSid
    THEN [res |-> "TypeError", S |-> [S EXCEPT !.M = MgrClose(S.M, S.cur)]]
    ELSE [res |-> "ok", S |-> S]

\* write a FlowState back to the variables
Install(S) ==
    /\ active_node_id' = S.active
    /\ current_session_id' = S.cur
    /\ sessions' = S.M.sessions
    /\ sess' = S.M.sess
    /\ ready' = S.M.ready
    /\ pipes' = S.pipes

\* put an event on _q
QPut(e) ==
    /\ q' = Append(q, e)
    /\ qlog' = Append(qlog, e)

\* history: a start has succeeded / the session is started and not closed
Started == \E k \in DOMAIN qlog : qlog[k].type = "flow.started"

Running == Started /\ ~closed

\* record a call: what was called with what, and how it ended
Logged(op, arg, res) ==
    /\ ncalls' = ncalls + 1
    /\ last' = [op |-> op, arg |-> arg, res |-> res, prev |-> last.op]
    /\ handoffs' = IF op = "route" /\ Running /\ arg \in AgentStore
                   THEN Append(handoffs, [to |-> arg, res |-> res])
                   ELSE handoffs

\* the node start() resolves: the given id, else the flow's first node
EntryNode(entry) == IF entry # None THEN entry ELSE FlowNodes[1]

\* FlowSession.start(entry_node_id)
Start(entry) ==
    /\ ncalls < MaxCalls
    /\ LET r == StartNode(FlowState, EntryNode(entry))
       IN  IF EntryNode(entry) \notin NodeIds
           THEN /\ Logged("start", entry, "ValueError")
                /\ UNCHANGED <<active_node_id, current_session_id, q, qlog,
                               sessions, sess, pipes, ready>>
           ELSE IF r.res # "ok"
           THEN /\ Logged("start", entry, r.res)
                /\ UNCHANGED <<active_node_id, current_session_id, q, qlog,
                               sessions, sess, pipes, ready>>
           ELSE /\ Install(r.S)
                /\ QPut(FlowStartedEv(EntryNode(entry), ncalls + 1))
                /\ Logged("start", entry, "ok")
    /\ UNCHANGED <<closed, subs, emits>>

\* FlowSession.route(to_node_id, reason)
Route(to) ==
    /\ ncalls < MaxCalls
    /\ LET c == AwaitClose(FlowState)
           r == StartNode(c.S, to)
       IN  IF c.res # "ok"
           THEN /\ Install(c.S)
                /\ Logged("route", to, c.res)
                /\ UNCHANGED <<q, qlog>>
           ELSE /\ QPut(RouteEv(active_node_id, to, ncalls + 1))
                /\ Install(r.S)
                /\ Logged("route", to, r.res)
    /\ UNCHANGED <<closed, subs, emits>>

\* FlowSession.close()
Close ==
    /\ ncalls < MaxCalls
    /\ closed' = TRUE
    /\ LET c == AwaitClose(FlowState)
       IN  /\ Install(c.S)
           /\ Logged("close", None, c.res)
    /\ UNCHANGED <<q, qlog, subs, emits>>

\* get() of a LifoQueue: the newest item
QueueGetLast(queue) ==
    [item |-> queue[Len(queue)], rest |-> SubSeq(queue, 1, Len(queue) - 1)]

\* asyncio.Queue.get: the oldest item of the queue
QueueGet(queue) == [item |-> Head(queue), rest |-> Tail(queue)]

\* SessionManager.emit that puts the event on the queue of every session
MgrEmitAll(M, id, e) ==
    [res |-> id \in DOMAIN M.sessions,
     M   |-> [M EXCEPT !.sess = [o \in DOMAIN M.sess |->
                 [M.sess[o] EXCEPT !.queue = Append(@, [e EXCEPT !.seq = M.sess[o].puts + 1]),
                                   !.puts = @ + 1]]]]

\* SessionManager.emit(session_id, event): False for an id that is not
\* registered, else put the event on the session's queue and return True
MgrEmit(M, id, e) ==
    IF id \in DOMAIN M.sessions
    THEN [res |-> TRUE,
          M   |-> [M EXCEPT !.sess[M.sessions[id]] =
                      [@ EXCEPT !.queue = Append(@, [e EXCEPT !.seq = M.sess[M.sessions[id]].puts + 1]),
                                !.puts = @ + 1]]]
    ELSE [res |-> FALSE, M |-> M]

\* a call of SessionManager.emit(session_id, event), as post_message makes;
\* the put makes a pipe() suspended in get() on that queue ready
Emit(id) ==
    /\ emits' = emits + 1
    /\ LET r == MgrEmit([sessions |-> sessions, sess |-> sess, ready |-> ready],
                        id, SpeechFinalEv(emits + 1))
       IN  /\ sess' = r.M.sess
           /\ IF /\ r.res
                 /\ sessions[id] \in DOMAIN pipes
                 /\ pipes[sessions[id]].st = "waiting"
              THEN /\ pipes' = [pipes EXCEPT ![sessions[id]].st = "woken"]
                   /\ ready' = Append(ready, Task("pipe", sessions[id]))
              ELSE UNCHANGED <<pipes, ready>>
    /\ UNCHANGED <<active_node_id, current_session_id, q, closed, sessions,
                   subs, qlog, ncalls, last, handoffs>>

\* ------------------------------------------------------ tasks of the loop
\* the task at the head of the ready queue is the next one to run
IsNext(kind, i) == ready # <<>> /\ Head(ready) = Task(kind, i)

\* the task spawn() created for Session.start(room) runs; enable_avatar is
\* False for the sessions a FlowSession spawns, so only _started is set
SessionStartTask(i) ==
    /\ IsNext("start", i)
    /\ sess' = [sess EXCEPT ![i].started = TRUE]
    /\ ready' = Tail(ready)
    /\ UNCHANGED <<active_node_id, current_session_id, q, closed, sessions,
                   pipes, subs, emits, qlog, ncalls, last, handoffs>>

\* the task SessionManager.close created for Session.close() runs: no
\* Tavus session, pipeline or message task to stop
SessionCloseTask(i) ==
    /\ IsNext("close", i)
    /\ sess' = SessionClose(sess, i)
    /\ ready' = Tail(ready)
    /\ UNCHANGED <<active_node_id, current_session_id, q, closed, sessions,
                   pipes, subs, emits, qlog, ncalls, last, handoffs>>

\* pipe() without the line that tags the event
TaggedNot(e, node_id) == e

\* e["nodeId"] = node_id
Tagged(e, node_id) == [e EXCEPT !.nodeId = node_id]

\* the events pipe() forwards in one run: get() on a non-empty queue and
\* put() on _q do not suspend, so it forwards all that is queued and then
\* suspends in get()
Forwarded(queue, node_id) == [k \in DOMAIN queue |-> Tagged(queue[k], node_id)]

\* pipe() runs for the first time: SessionManager.events(sid) looks the id
\* up; an unknown id yields the error event and ends the generator
PipeAttach(i) ==
    /\ IsNext("pipe", i)
    /\ pipes[i].st = "scheduled"
    /\ IF i \in DOMAIN sessions
       THEN /\ pipes' = [pipes EXCEPT ![i].st = "waiting"]
            /\ q' = q \o Forwarded(sess[sessions[i]].queue, pipes[i].nodeId)
            /\ qlog' = qlog \o Forwarded(sess[sessions[i]].queue, pipes[i].nodeId)
            /\ sess' = [sess EXCEPT ![sessions[i]].queue = <<>>]
       ELSE /\ pipes' = [pipes EXCEPT ![i].st = "done"]
            /\ QPut(Tagged(NotFoundEv, pipes[i].nodeId))
            /\ UNCHANGED sess
    /\ ready' = Tail(ready)
    /\ UNCHANGED <<active_node_id, current_session_id, closed, sessions,
                   subs, emits, ncalls, last, handoffs>>

\* pipe(), suspended in Session.stream_events, was woken by a put on the
\* session's queue and runs again
PipeForward(i) ==
    /\ IsNext("pipe", i)
    /\ pipes[i].st = "woken"
    /\ pipes' = [pipes EXCEPT ![i].st = "waiting"]
    /\ q' = q \o Forwarded(sess[i].queue, pipes[i].nodeId)
    /\ qlog' = qlog \o Forwarded(sess[i].queue, pipes[i].nodeId)
    /\ sess' = [sess EXCEPT ![i].queue = <<>>]
    /\ ready' = Tail(ready)
    /\ UNCHANGED <<active_node_id, current_session_id, closed, sessions,
                   subs, emits, ncalls, last, handoffs>>

\* ------------------------------- one Session: its avatar leg and its turns
\* an event on the queue of the session; turn: history, the message task
\* that put it, 0 for an event no message task put
TurnEv(type, turn) == [type |-> type, turn |-> turn]

\* Session.__init__; task 0 stands for _task None
NoSession == [started |-> FALSE, tavus_session_id |-> None, tavus_task |-> FALSE,
              tavus_transport |-> FALSE, task |-> 0, queue |-> <<>>]

\* await self.queue.put(e): the queue is unbounded, the put does not suspend
QueuePut(ses, e) == [ses EXCEPT !.queue = Append(@, e)]

\* what enable_avatar, the replica id, TAVUS_AVATAR_MODE and room make of
\* _start_avatar_stream: not called, stopped by one of its checks, or
\* attaching over the Phoenix REST client or the Pipecat pipeline
AvatarModes == {"off", "no_replica", "no_room", "unknown", "phoenix_rest", "pipecat_daily"}

\* how the backend call of an attach ends: the leg runs, the Phoenix client
\* answers with an error, or the call raises
AttachOutcomes == {"ok", "error", "raise"}

\* how generate_agent_reply ends
ReplyOutcomes == {"ok", "raise"}

\* an exception handler that lets the exception out of the operation
AvatarErrorReraise(ses) == [session |-> ses, raised |-> TRUE]

\* except Exception in _start_avatar_stream: the exception becomes an
\* avatar.error event
AvatarError(ses) ==
    [session |-> QueuePut(ses, TurnEv("avatar.error", 0)), raised |-> FALSE]

\* except Exception in process_user_message: the exception becomes an
\* agent.error event
AgentError(ses, turn) ==
    [session |-> QueuePut(ses, TurnEv("agent.error", turn)), raised |-> FALSE]

\* SessionManager.spawn_async(session_id, agent_card, enable_avatar, room):
\* register the session, queue session.started and await Session.start,
\* which runs up to the backend call of _start_avatar_stream
SpawnAsyncAvatar(mode) ==
    /\ start_task = "none"
    /\ registered' = TRUE
    /\ LET s0 == [NoSession EXCEPT !.started = TRUE,
                                   !.queue = <<TurnEv("session.started", 0)>>]
       IN  IF mode = "off"
           THEN session' = s0 /\ start_task' = "done"
           ELSE IF mode \in {"no_replica", "no_room", "unknown"}
           THEN /\ session' = QueuePut(s0, TurnEv("avatar.error", 0))
                /\ start_task' = "done"
           ELSE session' = s0 /\ start_task' = mode
    /\ UNCHANGED <<tasks, timers, close_task, legs, raised>>

\* the backend call of _start_avatar_stream returns or raises:
\* start_phoenix_session for phoenix_rest, start_tavus_video_pipeline for
\* pipecat_daily; _start_avatar_stream, start and spawn_async run to their end
AttachDone(outcome) ==
    /\ start_task \in {"phoenix_rest", "pipecat_daily"}
    /\ start_task' = "done"
    /\ IF outcome = "ok" /\ start_task = "phoenix_rest"
       THEN /\ session' = QueuePut([session EXCEPT !.tavus_session_id = "tavus"],
                                   TurnEv("avatar.started", 0))
            /\ legs' = legs \cup {"tavus_session"}
            /\ UNCHANGED raised
       ELSE IF outcome = "ok"
       THEN /\ session' = [session EXCEPT !.tavus_task = TRUE, !.tavus_transport = TRUE]
            /\ legs' = legs \cup {"pipeline_task", "transport"}
            /\ UNCHANGED raised
       ELSE IF outcome = "error" /\ start_task = "phoenix_rest"
       THEN /\ session' = QueuePut(session, TurnEv("avatar.error", 0))
            /\ UNCHANGED <<legs, raised>>
       ELSE /\ session' = AvatarError(session).session
            /\ raised' = (raised \/ AvatarError(session).raised)
            /\ UNCHANGED legs
    /\ UNCHANGED <<registered, tasks, timers, close_task>>

\* SessionManager.process_message(session_id, user_text) for a registered
\* id: create the task and store it in s._task, in place of the one before
ProcessMessageCall ==
    /\ registered
    /\ Len(tasks) < MaxTurns
    /\ tasks' = Append(tasks, [st |-> "new", sent |-> 0])
    /\ session' = [session EXCEPT !.task = Len(tasks) + 1]
    /\ UNCHANGED <<registered, timers, start_task, close_task, legs, raised>>

\* a message task runs for the first time, the oldest first: the reply is
\* generated, the first delta is put and the task suspends in sleep
TaskRun(i, reply) ==
    /\ tasks[i].st = "new"
    /\ \A j \in 1..(i - 1) : tasks[j].st # "new"
    /\ IF reply = "raise"
       THEN /\ session' = AgentError(session, i).session
            /\ raised' = (raised \/ AgentError(session, i).raised)
            /\ tasks' = [tasks EXCEPT ![i].st = "done"]
            /\ UNCHANGED timers
       ELSE /\ session' = QueuePut(session, TurnEv("agent.speech.delta", i))
            /\ tasks' = [tasks EXCEPT ![i].st = "sleeping", ![i].sent = 1]
            /\ timers' = Append(timers, i)
            /\ UNCHANGED raised
    /\ UNCHANGED <<registered, start_task, close_task, legs>>

\* the sleep with the earliest deadline ends: its task puts the next delta
\* and sleeps again, or after the last delta puts agent.speech and
\* agent.speech.done and ends
TaskWake ==
    /\ timers # <<>>
    /\ LET i == Head(timers)
       IN  IF tasks[i].sent < ReplyTokens
           THEN /\ session' = QueuePut(session, TurnEv("agent.speech.delta", i))
                /\ tasks' = [tasks EXCEPT ![i].sent = @ + 1]
                /\ timers' = Append(Tail(timers), i)
           ELSE /\ session' = QueuePut(QueuePut(session, TurnEv("agent.speech", i)),
                                       TurnEv("agent.speech.done", i))
                /\ tasks' = [tasks EXCEPT ![i].st = "done"]
                /\ timers' = Tail(timers)
    /\ UNCHANGED <<registered, start_task, close_task, legs, raised>>

\* Task.cancel() of task k: a task that has not ended ends at its await
\* with CancelledError, which no handler of process_user_message catches
CancelTask(ts, k) ==
    IF k # 0 /\ ts[k].st \in {"new", "sleeping"}
    THEN [ts EXCEPT ![k].st = "cancelled"]
    ELSE ts

\* Session.close from `# Cancel task`: cancel self._task; L: the legs left
CloseCancelTask(L) ==
    /\ legs' = L
    /\ tasks' = CancelTask(tasks, session.task)
    /\ timers' = SelectSeq(timers, LAMBDA j : j # session.task)
    /\ close_task' = "done"
    /\ UNCHANGED session

\* Session.close from `# Stop Pipecat Tavus pipeline`: cancel _tavus_task,
\* then await the close of _tavus_transport when there is one
CloseStopPipeline(L) ==
    IF session.tavus_transport
    THEN /\ legs' = IF session.tavus_task THEN L \ {"pipeline_task"} ELSE L
         /\ close_task' = "closing_transport"
         /\ UNCHANGED <<session, tasks, timers>>
    ELSE CloseCancelTask(IF session.tavus_task THEN L \ {"pipeline_task"} ELSE L)

\* Session.close from its first line: await stop_phoenix_session when the
\* session holds a tavus_session_id
CloseStopAvatar ==
    IF session.tavus_session_id # None
    THEN /\ close_task' = "stopping"
         /\ UNCHANGED <<session, tasks, timers, legs>>
    ELSE CloseStopPipeline(legs)

\* SessionManager.close_async(session_id) for a registered id: pop the
\* session and await its close, which runs up to its first backend call
CloseAsyncAvatar ==
    /\ registered
    /\ close_task = "none"
    /\ registered' = FALSE
    /\ CloseStopAvatar
    /\ UNCHANGED <<start_task, raised>>

\* stop_phoenix_session returns: the Tavus session is stopped
PhoenixStopped ==
    /\ close_task = "stopping"
    /\ CloseStopPipeline(legs \ {"tavus_session"})
    /\ UNCHANGED <<registered, start_task, raised>>

\* _tavus_transport.close() returns: the transport is closed
TransportClosed ==
    /\ close_task = "closing_transport"
    /\ CloseCancelTask(legs \ {"transport"})
    /\ UNCHANGED <<registered, start_task, raised>>

\* One session with an avatar leg: it is spawned, sent user messages and
\* closed, while its backend calls and its message tasks go on.
NextTurns ==
    \/ \E mode \in AvatarModes :
          SpawnAsyncAvatar(mode) /\ UNCHANGED <<RuntimeVars, CoordVars>>
    \/ \E outcome \in AttachOutcomes :
          AttachDone(outcome) /\ UNCHANGED <<RuntimeVars, CoordVars>>
    \/ ProcessMessageCall /\ UNCHANGED <<RuntimeVars, CoordVars>>
    \/ \E i \in DOMAIN tasks : \E reply \in ReplyOutcomes :
          TaskRun(i, reply) /\ UNCHANGED <<RuntimeVars, CoordVars>>
    \/ TaskWake /\ UNCHANGED <<RuntimeVars, CoordVars>>
    \/ CloseAsyncAvatar /\ UNCHANGED <<RuntimeVars, CoordVars>>
    \/ PhoenixStopped /\ UNCHANGED <<RuntimeVars, CoordVars>>
    \/ TransportClosed /\ UNCHANGED <<RuntimeVars, CoordVars>>

\* ------------------------------------------------------------ specification
\* FlowSession.__init__ and SessionManager.__init__
Init ==
    /\ active_node_id = None
    /\ current_session_id = NoSid
    /\ q = <<>>
    /\ closed = FALSE
    /\ sessions = <<>>
    /\ sess = <<>>
    /\ pipes = <<>>
    /\ ready = <<>>
    /\ subs = [u \in SubIds |-> [st |-> "idle", id |-> 0, obj |-> 0, since |-> 0,
                                  got |-> <<>>]]
    /\ emits = 0
    /\ qlog = <<>>
    /\ ncalls = 0
    /\ last = [op |-> None, arg |-> None, res |-> None, prev |-> None]
    /\ handoffs = <<>>
    /\ active_coordinators = <<>>
    /\ nstarts = 0
    /\ coord_id = None
    /\ registered = FALSE
    /\ session = NoSession
    /\ tasks = <<>>
    /\ timers = <<>>
    /\ start_task = "none"
    /\ close_task = "none"
    /\ legs = {}
    /\ raised = FALSE
    /\ flow_id = None
    /\ flow = None
    /\ store = [f \in {"chain", "nodes", "desk", "pair", "mixed", "empty", "missing"} |->
                   IF f = "missing" THEN None ELSE f]
    /\ nupserts = 0
    /\ agents = <<>>
    /\ strategy = None
    /\ current_agent_id = None
    /\ conversation_history = <<>>
    /\ response = [op |-> None, message |-> <<>>, agents |-> <<>>]

Next ==
    \/ \E entry \in Targets \cup {None} : Start(entry) /\ UNCHANGED <<CoordVars, TurnVars>>
    \/ \E to \in Targets : Route(to) /\ UNCHANGED <<CoordVars, TurnVars>>
    \/ Close /\ UNCHANGED <<CoordVars, TurnVars>>
    \/ \E id \in 1..Len(sess) : emits < MaxEmits /\ Emit(id) /\ UNCHANGED <<CoordVars, TurnVars>>
    \/ \E i \in DOMAIN sess : SessionStartTask(i) /\ UNCHANGED <<CoordVars, TurnVars>>
    \/ \E i \in DOMAIN sess : SessionCloseTask(i) /\ UNCHANGED <<CoordVars, TurnVars>>
    \/ \E i \in DOMAIN pipes : PipeAttach(i) /\ UNCHANGED <<CoordVars, TurnVars>>
    \/ \E i \in DOMAIN pipes : PipeForward(i) /\ UNCHANGED <<CoordVars, TurnVars>>

Spec == Init /\ [][Next]_vars

SpecTurns == Init /\ [][NextTurns]_vars

\* ------------------------------------- the SessionManager used directly
\* create_session_ep, ws_events and post_message (api/sessions.py) and the
\* unit tests use the manager with ids of their own: sessions are spawned,
\* websocket consumers read them, events are pushed, sessions are closed.

FlowVars == <<active_node_id, current_session_id, q, closed, pipes, qlog,
              ncalls, last, handoffs>>

MgrState == [sessions |-> sessions, sess |-> sess, ready |-> ready]

InstallMgr(M) ==
    /\ sessions' = M.sessions
    /\ sess' = M.sess
    /\ ready' = M.ready

\* SessionManager.spawn(session_id, agent_card)
Spawn(id) ==
    /\ Len(sess) < MaxSpawns
    /\ InstallMgr(MgrSpawn(MgrState, id))
    /\ UNCHANGED <<FlowVars, subs, emits>>

\* SessionManager.spawn_async(session_id, agent_card) with enable_avatar
\* False: register, queue session.started, run Session.start to its end
SpawnAsync(id) ==
    /\ Len(sess) < MaxSpawns
    /\ sessions' = (id :> (Len(sess) + 1)) @@ sessions
    /\ sess' = Append(sess, [NewSession(id) EXCEPT !.started = TRUE])
    /\ UNCHANGED <<FlowVars, ready, subs, emits>>

\* SessionManager.close_async(session_id): pop the id and run Session.close
\* of the popped object to its end
MgrCloseAsync(M, id) ==
    IF id \in DOMAIN M.sessions
    THEN [sessions |-> [i \in (DOMAIN M.sessions) \ {id} |-> M.sessions[i]],
          sess     |-> SessionClose(M.sess, M.sessions[id]),
          ready    |-> M.ready]
    ELSE M

\* a caller of SessionManager.close(session_id)
CloseCall(id) ==
    /\ id \in DOMAIN sessions
    /\ InstallMgr(MgrClose(MgrState, id))
    /\ UNCHANGED <<FlowVars, subs, emits>>

\* a caller of SessionManager.close_async(session_id)
CloseAsyncCall(id) ==
    /\ id \in DOMAIN sessions
    /\ InstallMgr(MgrCloseAsync(MgrState, id))
    /\ UNCHANGED <<FlowVars, subs, emits>>

\* A consumer u of SessionManager.events(session_id), as ws_events:
\*   async for event in session_manager.events(id): await ws.send_json(event)
\*   "idle"     not connected
\*   "get"      in Session.stream_events, suspended in queue.get() or about
\*              to call it
\*   "errored"  events() yielded the error event for an unknown id
\*   "ended"    the generator returned: end of stream
\*   "gone"     send_json raised WebSocketDisconnect and the handler returned
\* since: history, the number of events that had been put on the session's
\*        queue when the consumer subscribed
Subscribe(u, id) ==
    /\ subs[u].st = "idle"
    /\ IF id \in DOMAIN sessions
       THEN subs' = [subs EXCEPT ![u] = [st |-> "get", id |-> id,
                                         obj |-> sessions[id],
                                         since |-> sess[sessions[id]].puts,
                                         got |-> <<>>]]
       ELSE subs' = [subs EXCEPT ![u] = [st |-> "errored", id |-> id,
                                         obj |-> 0, since |-> 0,
                                         got |-> <<NotFoundEv>>]]
    /\ UNCHANGED <<FlowVars, sessions, sess, ready, emits>>

\* events() returns after the error event
SubEnd(u) ==
    /\ subs[u].st = "errored"
    /\ subs' = [subs EXCEPT ![u].st = "ended"]
    /\ UNCHANGED <<FlowVars, sessions, sess, ready, emits>>

\* Session.stream_events: ev = await self.queue.get(); yield ev, and the
\* event is sent to the client
SubGet(u) ==
    /\ subs[u].st = "get"
    /\ sess[subs[u].obj].queue # <<>>
    /\ LET g == QueueGet(sess[subs[u].obj].queue)
       IN  /\ sess' = [sess EXCEPT ![subs[u].obj].queue = g.rest]
           /\ subs' = [subs EXCEPT ![u].got = Append(@, g.item)]
    /\ UNCHANGED <<FlowVars, sessions, ready, emits>>

\* the same read when the client has gone: send_json raises
\* WebSocketDisconnect and ws_events calls close_async(session_id)
SubGetDisconnected(u) ==
    /\ subs[u].st = "get"
    /\ sess[subs[u].obj].queue # <<>>
    /\ LET g  == QueueGet(sess[subs[u].obj].queue)
           M1 == [MgrState EXCEPT !.sess[subs[u].obj].queue = g.rest]
       IN  InstallMgr(MgrCloseAsync(M1, subs[u].id))
    /\ subs' = [subs EXCEPT ![u].st = "gone"]
    /\ UNCHANGED <<FlowVars, emits>>

\* Ids and consumers are interchangeable: the first session is spawned under
\* id 1 and consumer 1 connects before consumer 2.
FirstId(id) == id = 1 \/ sess # <<>>

FirstSub(u) == u = 1 \/ subs[1].st # "idle"

NextMgr ==
    \/ \E id \in SessionIds : FirstId(id) /\ Spawn(id) /\ UNCHANGED <<CoordVars, TurnVars>>
    \/ \E id \in SessionIds : FirstId(id) /\ SpawnAsync(id) /\ UNCHANGED <<CoordVars, TurnVars>>
    \/ \E id \in SessionIds : emits < MaxPushes /\ Emit(id) /\ UNCHANGED <<CoordVars, TurnVars>>
    \/ \E id \in SessionIds : CloseCall(id) /\ UNCHANGED <<CoordVars, TurnVars>>
    \/ \E id \in SessionIds : CloseAsyncCall(id) /\ UNCHANGED <<CoordVars, TurnVars>>
    \/ \E i \in DOMAIN sess : SessionStartTask(i) /\ UNCHANGED <<CoordVars, TurnVars>>
    \/ \E i \in DOMAIN sess : SessionCloseTask(i) /\ UNCHANGED <<CoordVars, TurnVars>>
    \/ \E u \in SubIds : \E id \in SessionIds : FirstSub(u) /\ Subscribe(u, id) /\ UNCHANGED <<CoordVars, TurnVars>>
    \/ \E u \in SubIds : SubEnd(u) /\ UNCHANGED <<CoordVars, TurnVars>>
    \/ \E u \in SubIds : SubGet(u) /\ UNCHANGED <<CoordVars, TurnVars>>
    \/ \E u \in SubIds : SubGetDisconnected(u) /\ UNCHANGED <<CoordVars, TurnVars>>

SpecMgr == Init /\ [][NextMgr]_vars

\* The loop runs every ready task, and a consumer whose read can proceed
\* does proceed; callers are free to stop calling.
FairMgr ==
    /\ SpecMgr
    /\ WF_vars(\E i \in DOMAIN sess : SessionStartTask(i) /\ UNCHANGED <<CoordVars, TurnVars>>)
    /\ WF_vars(\E i \in DOMAIN sess : SessionCloseTask(i) /\ UNCHANGED <<CoordVars, TurnVars>>)
    /\ WF_vars(\E u \in SubIds : SubEnd(u) /\ UNCHANGED <<CoordVars, TurnVars>>)
    /\ WF_vars(\E u \in SubIds : SubGet(u) /\ UNCHANGED <<CoordVars, TurnVars>>)

\* ------------------------------------------- multi-agent coordination
\* services/multi_agent.py MultiAgentCoordinator and the registry of
\* api/multi_agent.py.  The coordinator reads its flow as the graph dict
\* {"nodes": [...], "edges": [...]} that _init_agents_from_flow takes apart
\* (the shape memory.store.list_flow_nodes_edges produces): a node has an
\* "id", an "agent_id", a "label" and its "data" (with an optional "role"),
\* an edge has the node ids "source" and "target".

AgentRoutingStrategy == {"round_robin", "priority", "conditional", "parallel", "sequential"}

\* text is a sequence of words; str.lower() maps each word to lower case
LowerWord(w) ==
    CASE w = "Sales" -> "sales"
      [] w = "Desk"  -> "desk"
      [] OTHER       -> w

Lower(text) == [k \in DOMAIN text |-> LowerWord(text[k])]

\* needle in hay, for two texts: a contiguous run of hay; "" is in every text
Contains(hay, needle) ==
    \E i \in 0..(Len(hay) - Len(needle)) :
        \A k \in DOMAIN needle : hay[i + k] = needle[k]

FlowNode(id, agent_id, label, role) ==
    [id |-> id, agent_id |-> agent_id, label |-> label, role |-> role]

FlowEdge(source, target) == [source |-> source, target |-> target]

\* The flow graphs.
\*   chain: A -> B -> C, each node named after its agent
\*   nodes: n1 -> n2 -> n3, the nodes run the agents a1, a2, a3
\*   desk:  front -> sales, front -> support, each node named after its agent
\*   pair:  sales and support, no edge
\*   mixed: A -> n2, where node n2 runs agent a2
\*   empty: no node and no edge
Graph(g) ==
    CASE g = "chain" ->
           [nodes |-> <<FlowNode("A", "A", <<"intake">>, <<>>),
                        FlowNode("B", "B", <<"billing">>, <<>>),
                        FlowNode("C", "C", <<"followup">>, <<>>)>>,
            edges |-> <<FlowEdge("A", "B"), FlowEdge("B", "C")>>]
      [] g = "nodes" ->
           [nodes |-> <<FlowNode("n1", "a1", <<"intake">>, <<>>),
                        FlowNode("n2", "a2", <<"billing">>, <<>>),
                        FlowNode("n3", "a3", <<"followup">>, <<>>)>>,
            edges |-> <<FlowEdge("n1", "n2"), FlowEdge("n2", "n3")>>]
      [] g = "desk" ->
           [nodes |-> <<FlowNode("front", "front", <<"front", "Desk">>, <<"greets", "callers">>),
                        FlowNode("sales", "sales", <<"Sales">>, <<>>),
                        FlowNode("support", "support", <<"support">>, <<"fixes", "problems">>)>>,
            edges |-> <<FlowEdge("front", "sales"), FlowEdge("front", "support")>>]
      [] g = "pair" ->
           [nodes |-> <<FlowNode("sales", "sales", <<"Sales">>, <<>>),
                        FlowNode("support", "support", <<"support">>, <<>>)>>,
            edges |-> <<>>]
      [] g = "mixed" ->
           [nodes |-> <<FlowNode("A", "A", <<"intake">>, <<>>),
                        FlowNode("n2", "a2", <<"billing">>, <<>>)>>,
            edges |-> <<FlowEdge("A", "n2")>>]
      [] g = "empty" ->
           [nodes |-> <<>>, edges |-> <<>>]

\* the flow ids of the requests; no flow is stored under "missing"
FlowIds == {"chain", "nodes", "desk", "pair", "mixed", "empty", "missing"}

\* _load_flow: the graph stored under the flow id, None when there is none
get_flow(f) == IF store[f] = None THEN None ELSE Graph(store[f])

\* the user messages sent
Messages == {<<"transfer", "me", "to", "sales">>,
             <<"hello">>,
             <<"sales", "or", "support">>,
             <<"problems", "with", "billing">>}

\* the scores of _select_conditional
ScoreLabel == 10
ScoreRole == 5
ScoreOutgoing == 3

\* [f(x) for x in seq if Test(x)] for the edge lists
RECURSIVE EndpointsOf(_, _, _)
EndpointsOf(edges, agent_id, side) ==
    IF edges = <<>> THEN <<>>
    ELSE LET e == Head(edges)
             rest == EndpointsOf(Tail(edges), agent_id, side)
         IN  IF side = "incoming"
             THEN IF e.target = agent_id THEN <<e.source>> \o rest ELSE rest
             ELSE IF e.source = agent_id THEN <<e.target>> \o rest ELSE rest

\* _get_agent_connections(agent_id, edges): the edges are matched against
\* the agent id
GetAgentConnections(agent_id, edges) ==
    [incoming |-> EndpointsOf(edges, agent_id, "incoming"),
     outgoing |-> EndpointsOf(edges, agent_id, "outgoing")]

\* the position of key agent_id in the dict, 0 when absent
IndexOf(dict, agent_id) ==
    IF \E k \in DOMAIN dict : dict[k].id = agent_id
    THEN CHOOSE k \in DOMAIN dict : dict[k].id = agent_id
    ELSE 0

\* self.agents[agent_id] = value: a new key goes last, a present key keeps
\* its place
DictSet(dict, value) ==
    IF IndexOf(dict, value.id) = 0 THEN Append(dict, value)
    ELSE [dict EXCEPT ![IndexOf(dict, value.id)] = value]

\* _init_agents_from_flow: one agent per node that has an agent_id
RECURSIVE InitAgentsFromFlow(_, _)
InitAgentsFromFlow(nodes, edges) ==
    IF nodes = <<>> THEN <<>>
    ELSE LET node == nodes[Len(nodes)]
             before == InitAgentsFromFlow(SubSeq(nodes, 1, Len(nodes) - 1), edges)
         IN  IF node.agent_id = None THEN before
             ELSE DictSet(before,
                          [id |-> node.agent_id, label |-> node.label,
                           role |-> node.role,
                           connections |-> GetAgentConnections(node.agent_id, edges)])

\* max of a non-empty set of numbers
Max(S) == CHOOSE m \in S : \A n \in S : n <= m

\* _infer_strategy_from_flow(edges)
InferStrategyFromFlow(dict, edges) ==
    IF edges = <<>> THEN "round_robin"
    ELSE IF Max({Len(GetAgentConnections(dict[k].id, edges).outgoing) : k \in DOMAIN dict}) <= 1
         THEN "sequential"
         ELSE "conditional"

\* A coordinator is C = [agents, strategy, current]
\* a coordinator that builds its agents from the stored graph at each use
CoordinatorReload ==
    [agents |-> InitAgentsFromFlow(Graph(store[flow_id]).nodes, Graph(store[flow_id]).edges),
     strategy |-> strategy, current |-> current_agent_id]

\* the coordinator object: the agents built by initialize, the strategy and
\* the current agent
Coordinator == [agents |-> agents, strategy |-> strategy, current |-> current_agent_id]

\* list(self.agents.keys())[0] if self.agents else None
FirstAgent(C) == IF C.agents = <<>> THEN None ELSE C.agents[1].id

\* _select_round_robin that restarts at the first agent after the second
SelectRoundRobinShort(C) ==
    IF C.agents = <<>> THEN None
    ELSE IF C.current = None THEN C.agents[1].id
    ELSE IF IndexOf(C.agents, C.current) = 0 THEN C.agents[1].id
    ELSE C.agents[(IndexOf(C.agents, C.current) % 2) + 1].id

\* _select_round_robin
SelectRoundRobin(C) ==
    IF C.agents = <<>> THEN None
    ELSE IF C.current = None THEN C.agents[1].id
    ELSE IF IndexOf(C.agents, C.current) = 0 THEN C.agents[1].id
    ELSE C.agents[(IndexOf(C.agents, C.current) % Len(C.agents)) + 1].id

\* _select_sequential
SelectSequential(C) ==
    IF C.current = None
    THEN IF \E k \in DOMAIN C.agents : C.agents[k].connections.incoming = <<>>
         THEN C.agents[CHOOSE k \in DOMAIN C.agents :
                          /\ C.agents[k].connections.incoming = <<>>
                          /\ \A j \in 1..(k - 1) : C.agents[j].connections.incoming # <<>>].id
         ELSE FirstAgent(C)
    ELSE IF /\ IndexOf(C.agents, C.current) # 0
            /\ C.agents[IndexOf(C.agents, C.current)].connections.outgoing # <<>>
         THEN C.agents[IndexOf(C.agents, C.current)].connections.outgoing[1]
         ELSE C.current

\* the score _select_conditional gives agent k for the message
Score(C, k, message) ==
      (IF Contains(Lower(message), Lower(C.agents[k].label)) THEN ScoreLabel ELSE 0)
    + (IF \E w \in DOMAIN C.agents[k].role :
             Contains(Lower(message), <<Lower(C.agents[k].role)[w]>>)
       THEN ScoreRole ELSE 0)
    + (IF /\ C.current # None
          /\ IndexOf(C.agents, C.current) # 0
          /\ \E j \in DOMAIN C.agents[IndexOf(C.agents, C.current)].connections.outgoing :
                C.agents[IndexOf(C.agents, C.current)].connections.outgoing[j] = C.agents[k].id
       THEN ScoreOutgoing ELSE 0)

\* max(scores, key=scores.get): the first key, in dict order, with the
\* highest score
ArgMax(C, message) ==
    CHOOSE k \in DOMAIN C.agents :
        /\ \A j \in DOMAIN C.agents : Score(C, j, message) <= Score(C, k, message)
        /\ \A j \in 1..(k - 1) : Score(C, j, message) < Score(C, k, message)

\* _select_conditional that takes the best agent also when it scores zero
SelectConditionalAlways(C, message) ==
    IF C.agents = <<>> THEN None
    ELSE C.agents[ArgMax(C, message)].id

\* _select_conditional
SelectConditional(C, message) ==
    IF C.agents = <<>> THEN None
    ELSE IF Score(C, ArgMax(C, message), message) > 0
         THEN C.agents[ArgMax(C, message)].id
         ELSE IF C.current # None THEN C.current ELSE C.agents[1].id

\* _select_priority
SelectPriority(C) == FirstAgent(C)

\* _select_agent: parallel is none of the strategies it knows and takes the
\* default, the first agent
SelectAgent(C, message) ==
    CASE C.strategy = "round_robin" -> SelectRoundRobin(C)
      [] C.strategy = "sequential"  -> SelectSequential(C)
      [] C.strategy = "conditional" -> SelectConditional(C, message)
      [] C.strategy = "priority"    -> SelectPriority(C)
      [] OTHER                      -> FirstAgent(C)

\* the session id start_multi_agent_session generates:
\* f"ma_{req.flow_id}_{len(_active_coordinators)}"
SessionId(f, registry) == <<"ma", f, Cardinality(DOMAIN registry)>>

\* the session ids that can be generated
MultiAgentIds == {<<"ma", f, n>> : f \in FlowIds, n \in 0..MaxStarts}

\* StartMultiAgentRequest: strategy is "conditional" when the request does
\* not give one; an explicit null stays None
RequestStrategy(strat) == IF strat = "omitted" THEN "conditional" ELSE strat

\* the strategy values of the requests
Requested == AgentRoutingStrategy \cup {None, "omitted"}

\* create_multi_agent_coordinator raises: initialize raises ValueError when
\* no flow is stored under the id, and _infer_strategy_from_flow takes the
\* max of an empty list when there are edges and no agent
InitializeFails(f) ==
    \/ store[f] = None
    \/ /\ store[f] # None
       /\ get_flow(f).edges # <<>>
       /\ InitAgentsFromFlow(get_flow(f).nodes, get_flow(f).edges) = <<>>

\* POST /multi-agent/start: create and initialize a coordinator for the
\* flow, set the requested strategy (None keeps the inferred one), generate
\* the session id and store the coordinator under it.  When the coordinator
\* cannot be created the handler answers 500 and nothing is stored.
StartMultiAgentSession(f, strat) ==
    /\ nstarts < MaxStarts
    /\ IF InitializeFails(f)
       THEN UNCHANGED CoordVars
       ELSE /\ nstarts' = nstarts + 1
            /\ flow_id' = f
            /\ flow' = store[f]
            /\ agents' = InitAgentsFromFlow(get_flow(f).nodes, get_flow(f).edges)
            /\ strategy' = IF RequestStrategy(strat) # None THEN RequestStrategy(strat)
                           ELSE InferStrategyFromFlow(agents', get_flow(f).edges)
            /\ current_agent_id' = None
            /\ conversation_history' = <<>>
            /\ coord_id' = SessionId(f, active_coordinators)
            /\ active_coordinators' =
                  [i \in DOMAIN active_coordinators \cup {SessionId(f, active_coordinators)} |->
                      IF i = SessionId(f, active_coordinators) THEN f
                      ELSE active_coordinators[i]]
            /\ response' = [op |-> None, message |-> <<>>, agents |-> <<>>]
            /\ UNCHANGED <<store, nupserts>>
    /\ UNCHANGED <<RuntimeVars, TurnVars>>

\* DELETE /multi-agent/{session_id}
StopMultiAgentSession(id) ==
    /\ id \in DOMAIN active_coordinators
    /\ active_coordinators' =
          [i \in DOMAIN active_coordinators \ {id} |-> active_coordinators[i]]
    /\ UNCHANGED <<RuntimeVars, TurnVars, nstarts, coord_id, flow_id, flow, store, nupserts,
                   agents, strategy,
                   current_agent_id, conversation_history, response>>

\* the latest coordinator is stored under its session id: a coordinator is
\* replaced in the registry only by a later one
Reachable == coord_id \in DOMAIN active_coordinators

\* the user entries of the history
UserTurns == Len(SelectSeq(conversation_history, LAMBDA h : h.role = "user"))

\* process_message that makes the selected id current before it looks the
\* id up in self.agents
ProcessMessageNoLookup(message) ==
    /\ Reachable
    /\ UserTurns < MaxMessages
    /\ LET agent_id == SelectAgent(Coordinator, message)
       IN  IF agent_id = None
           THEN /\ conversation_history' =
                      Append(conversation_history, [role |-> "user", agent_id |-> None])
                /\ response' = [op |-> "message", message |-> message, agents |-> <<>>]
                /\ UNCHANGED current_agent_id
           ELSE /\ conversation_history' =
                      conversation_history \o <<[role |-> "user", agent_id |-> None],
                                                 [role |-> "agent", agent_id |-> agent_id]>>
                /\ response' = [op |-> "message", message |-> message, agents |-> <<agent_id>>]
                /\ current_agent_id' = agent_id
    /\ UNCHANGED <<RuntimeVars, TurnVars, active_coordinators, nstarts, coord_id, flow_id,
                   flow, store, nupserts,
                   agents, strategy>>

\* POST /multi-agent/{session_id}/message -> coordinator.process_message
ProcessMessage(message) ==
    /\ Reachable
    /\ UserTurns < MaxMessages
    /\ LET agent_id == SelectAgent(Coordinator, message)
       IN  IF agent_id = None \/ IndexOf(agents, agent_id) = 0
           THEN /\ conversation_history' =
                      Append(conversation_history, [role |-> "user", agent_id |-> None])
                /\ response' = [op |-> "message", message |-> message, agents |-> <<>>]
                /\ UNCHANGED current_agent_id
           ELSE /\ conversation_history' =
                      conversation_history \o <<[role |-> "user", agent_id |-> None],
                                                 [role |-> "agent", agent_id |-> agent_id]>>
                /\ response' = [op |-> "message", message |-> message, agents |-> <<agent_id>>]
                /\ current_agent_id' = agent_id
    /\ UNCHANGED <<RuntimeVars, TurnVars, active_coordinators, nstarts, coord_id, flow_id,
                   flow, store, nupserts,
                   agents, strategy>>

\* POST /multi-agent/{session_id}/parallel -> coordinator.process_parallel:
\* one response of _process_with_agent for every agent
ProcessParallel(message) ==
    /\ Reachable
    /\ response' = [op |-> "parallel", message |-> <<>>,
                    agents |-> [k \in DOMAIN agents |-> agents[k].id]]
    /\ UNCHANGED <<RuntimeVars, TurnVars, active_coordinators, nstarts, coord_id, flow_id,
                   flow, store, nupserts,
                   agents, strategy, current_agent_id, conversation_history>>

\* the graphs a client saves
GraphNames == {"chain", "nodes", "desk", "pair", "mixed", "empty"}

\* memory.store.upsert_flow_graph(flow_id, nodes, edges): False when no flow
\* is stored under the id, else the stored nodes and edges are replaced
UpsertFlowGraph(f, g) ==
    /\ nupserts < MaxUpserts
    /\ nupserts' = nupserts + 1
    /\ store' = IF store[f] = None THEN store ELSE [store EXCEPT ![f] = g]
    /\ response' = [op |-> "upsert", message |-> <<>>, agents |-> <<>>]
    /\ UNCHANGED <<RuntimeVars, TurnVars, active_coordinators, nstarts, coord_id, flow_id,
                   flow, agents, strategy, current_agent_id,
                   conversation_history>>

\* The registry: sessions are started and stopped in any order.
NextRegistry ==
    \/ \E f \in FlowIds : \E strat \in Requested :
          StartMultiAgentSession(f, strat)
    \/ \E id \in MultiAgentIds : StopMultiAgentSession(id)

SpecRegistry == Init /\ [][NextRegistry]_vars

\* The coordinator: one session after the other is started, sent messages
\* and stopped.
NextCoord ==
    \/ \E f \in FlowIds : \E strat \in Requested :
          active_coordinators = <<>> /\ StartMultiAgentSession(f, strat)
    \/ \E id \in MultiAgentIds : StopMultiAgentSession(id)
    \/ \E message \in Messages : ProcessMessage(message)
    \/ \E message \in Messages : ProcessParallel(message)

SpecCoord == Init /\ [][NextCoord]_vars

\* The coordinator while the graph of its flow is saved again: a session is
\* started and sent messages, and a client replaces the stored graph of the
\* session's flow.
NextStore ==
    \/ \E f \in FlowIds : \E strat \in Requested :
          active_coordinators = <<>> /\ StartMultiAgentSession(f, strat)
    \/ \E g \in GraphNames : Reachable /\ UpsertFlowGraph(flow_id, g)
    \/ \E message \in Messages : ProcessMessage(message)

SpecStore == Init /\ [][NextStore]_vars

\* =================================================================== claims
\* the agent contexts of the flow session that are live: spawned for it and
\* registered in the session manager
Live == DOMAIN sessions

\* a step that is a call of op on the flow session
Called(op) == ncalls' = ncalls + 1 /\ last'.op = op

IsRoute(e) == e.type = "route"

\* a node-started event: a session.started forwarded with its node id
IsNodeStarted(e) == e.type = "session.started" /\ e.nodeId # None

\* the calls that published a Route event
RouteCalls == {qlog[k].call : k \in {n \in DOMAIN qlog : IsRoute(qlog[n])}}

\* the call an event of the channel comes from
CallOf(e) == IF e.sessionId # NoSid THEN pipes[e.sessionId].by ELSE e.call

Last(seq) == seq[Len(seq)]

\* the handoffs requested while running that were applied
Applied == {k \in DOMAIN handoffs : handoffs[k].res = "ok"}

\* C1: when two handoffs with valid targets have been requested on a running
\* session, at least one of them has been applied, no handoff is left
\* half-done, and activeNodeId is the target of the last handoff applied.
C1_TwoHandoffsSerialised ==
    (Running /\ Len(handoffs) >= 2) =>
        /\ Applied # {}
        /\ \A k \in Applied :
              (\A n \in Applied : n <= k) => active_node_id = handoffs[k].to
        /\ Cardinality(Live) = 1

\* C2: a flow session that has been started and not closed has exactly one
\* live agent context.
C2_ExactlyOneLiveContext == Running => Cardinality(Live) = 1

\* C3: between the Route event of a handoff and the node-started event of
\* the same handoff the channel carries no Route or node-started event of
\* another handoff.
C3_PairsNotInterleaved ==
    \A i \in DOMAIN qlog : \A j \in DOMAIN qlog :
        (/\ i < j
         /\ IsRoute(qlog[i])
         /\ IsNodeStarted(qlog[j])
         /\ CallOf(qlog[j]) = qlog[i].call)
        => \A k \in (i + 1)..(j - 1) :
              ((IsRoute(qlog[k]) \/ IsNodeStarted(qlog[k]))
                  /\ CallOf(qlog[k]) \in RouteCalls)
              => CallOf(qlog[k]) = qlog[i].call

\* C3 witness: the channel carries the Route of one handoff and, after it,
\* the Route and the node-started event of a later handoff.
C3_Witness ==
    \E i \in DOMAIN qlog : \E j \in DOMAIN qlog : \E k \in DOMAIN qlog :
        /\ i < j /\ j < k
        /\ IsRoute(qlog[i]) /\ IsRoute(qlog[j])
        /\ qlog[i].call # qlog[j].call
        /\ IsNodeStarted(qlog[k])
        /\ CallOf(qlog[k]) = qlog[j].call

\* C4: a handoff requested on a running session for a node of the flow
\* whose agent resolves succeeds, publishes Route{fromNodeId = the active
\* node before the call, toNodeId = the target} and leaves activeNodeId at
\* the target.
C4_HandoffPublishesRoute ==
    [][(Called("route") /\ Running /\ last'.arg \in AgentStore) =>
          /\ last'.res = "ok"
          /\ Len(qlog') = Len(qlog) + 1
          /\ IsRoute(Last(qlog'))
          /\ Last(qlog').fromNodeId = active_node_id
          /\ Last(qlog').toNodeId = last'.arg
          /\ active_node_id' = last'.arg]_vars

\* C5: after start(entry) on a new flow session, and until another call is
\* made on it, activeNodeId is the entry node (the given id, else the first
\* node of the flow), the first event on the channel is flow.started for
\* that node and the second is the session.started of the agent context
\* spawned for it, tagged with that node id.
C5_StartEvents ==
    (ncalls = 1 /\ last.op = "start" /\ last.res = "ok") =>
        LET entry == IF last.arg = None THEN "node_1" ELSE last.arg
        IN  /\ active_node_id = entry
            /\ Len(qlog) >= 1
            /\ qlog[1].type = "flow.started"
            /\ qlog[1].nodeId = entry
            /\ Len(qlog) >= 2 =>
                  /\ IsNodeStarted(qlog[2])
                  /\ qlog[2].nodeId = entry
                  /\ qlog[2].sessionId = current_session_id

\* C5 witness: start was given an entry node other than the first, and both
\* events are on the channel.
C5_Witness ==
    /\ ncalls = 1 /\ last.op = "start" /\ last.res = "ok"
    /\ last.arg = "node_2"
    /\ Len(qlog) >= 2

\* C6: a handoff to an id that is not a node of the flow fails and has no
\* effect: no agent context is closed, no Route is published, activeNodeId
\* is unchanged.
C6_InvalidTargetNoEffect ==
    [][(Called("route") /\ Running /\ last'.arg \notin NodeIds) =>
          /\ last'.res # "ok"
          /\ UNCHANGED <<sessions, qlog, active_node_id>>]_vars

\* C7: on a closed session every start and handoff is rejected with an
\* error and changes nothing: no agent context is started, no event is
\* published, activeNodeId is unchanged.
C7_ClosedRejectsCalls ==
    [][(closed /\ (Called("start") \/ Called("route"))) =>
          /\ last'.res # "ok"
          /\ UNCHANGED <<sessions, sess, qlog, active_node_id>>]_vars

\* C8: a close() called right after a close() changes nothing: the session
\* is left in the state the first close produced and no event is published.
C8_CloseIdempotent ==
    [][(Called("close") /\ last.op = "close") =>
          UNCHANGED <<active_node_id, current_session_id, closed, sessions,
                      sess, pipes, ready, q, qlog>>]_vars

\* C8 witness: a started session has been closed twice in a row.
C8_Witness ==
    /\ Started
    /\ last.op = "close" /\ last.prev = "close"
    /\ closed

\* C9: a consumer suspended in its read of a session's event stream when the
\* session has been closed eventually gets the end of the stream.
C9_BlockedReadersEnd ==
    \A u \in SubIds :
        [](  (subs[u].st = "get" /\ sess[subs[u].obj].closes > 0)
          => <>(subs[u].st = "ended"))

\* C10: the events a consumer has received from a session are in the order
\* in which they were put on the session's queue: their positions increase.
C10_DeliveryOrder ==
    \A u \in SubIds : \A i \in DOMAIN subs[u].got : \A j \in DOMAIN subs[u].got :
        i < j => subs[u].got[i].seq < subs[u].got[j].seq

\* C10 witness: one consumer has received three events, another consumer of
\* the same session none.
C10_Witness ==
    \E u \in SubIds : \E v \in SubIds :
        /\ Len(subs[u].got) >= 3
        /\ subs[v].st = "get" /\ subs[v].obj = subs[u].obj /\ u # v

\* the positions an event can have on the queue of a directly spawned
\* session: session.started and the events pushed after it
Positions == 1..(MaxPushes + 1)

\* consumer u has received the event put at position n of its session
Received(u, n) == \E k \in DOMAIN subs[u].got : subs[u].got[k].seq = n

\* consumers u and v are both reading the same session, which is registered
BothReading(u, v) ==
    /\ u # v
    /\ subs[u].st = "get" /\ subs[v].st = "get"
    /\ subs[u].obj = subs[v].obj
    /\ subs[u].id \in DOMAIN sessions
    /\ sessions[subs[u].id] = subs[u].obj

\* C11: while two consumers are both reading the same session, every event
\* put on its queue after both had subscribed is eventually received by
\* both of them.
C11_EachSubscriberGetsAll ==
    \A u \in SubIds : \A v \in SubIds : \A n \in Positions :
        [](  (/\ BothReading(u, v)
              /\ n > subs[u].since /\ n > subs[v].since
              /\ n <= sess[subs[u].obj].puts)
          => <>((Received(u, n) /\ Received(v, n)) \/ ~BothReading(u, v)))

\* C12: the first event a consumer of a registered session receives is
\* session.started carrying the id it subscribed to.
C12_FirstEventSessionStarted ==
    \A u \in SubIds :
        (subs[u].st \in {"get", "gone"} /\ subs[u].got # <<>>) =>
            /\ subs[u].got[1].type = "session.started"
            /\ subs[u].got[1].sessionId = subs[u].id

\* the Session objects a directly used manager can hold
Objects == 1..MaxSpawns

\* C14: a call of close or close_async leaves the id out of the registry;
\* for an id that is not registered neither changes anything; close_async
\* has run the close of the removed session when it returns, and the close
\* that close schedules is run eventually.
C14_RemoveDeregistersAndCloses ==
    /\ [][\A id \in SessionIds :
             (CloseCall(id) \/ CloseAsyncCall(id)) => id \notin DOMAIN sessions']_vars
    /\ [](\A id \in SessionIds :
             /\ id \notin DOMAIN MgrClose(MgrState, id).sessions
             /\ id \notin DOMAIN MgrCloseAsync(MgrState, id).sessions
             /\ id \notin DOMAIN sessions =>
                   MgrClose(MgrState, id) = MgrState /\ MgrCloseAsync(MgrState, id) = MgrState
             /\ id \in DOMAIN sessions =>
                   /\ MgrCloseAsync(MgrState, id).sess[sessions[id]].closes
                          = sess[sessions[id]].closes + 1
                   /\ MgrClose(MgrState, id).ready
                          = Append(ready, Task("close", sessions[id])))
    /\ \A o \in Objects :
          []((\E k \in DOMAIN ready : ready[k] = Task("close", o))
                => <>(o \in DOMAIN sess /\ sess[o].closes > 0))

\* C14 witness: a session has been removed with close: no id of the registry
\* names it and its close is scheduled and has not run yet.
C14_Witness ==
    \E o \in DOMAIN sess :
        /\ sess[o].closes = 0
        /\ \E k \in DOMAIN ready : ready[k] = Task("close", o)
        /\ \A id \in DOMAIN sessions : sessions[id] # o

\* the ids emit can be called with on a flow's manager: those of the
\* sessions spawned so far and one never spawned
EmitIds == 1..(Len(sess) + 1)

\* C15: emit(id, event) returns True exactly when the id is registered; it
\* then appends the event to the queue of that session and changes no other
\* session; for an id that is not registered it changes nothing.  The
\* registry is unchanged either way.
C15_EmitResult ==
    \A id \in EmitIds :
        LET r == MgrEmit(MgrState, id, SpeechFinalEv(emits + 1))
        IN  /\ r.res = (id \in DOMAIN sessions)
            /\ r.M.sessions = sessions
            /\ r.M.ready = ready
            /\ IF id \in DOMAIN sessions
               THEN /\ Len(r.M.sess[sessions[id]].queue) = Len(sess[sessions[id]].queue) + 1
                    /\ Last(r.M.sess[sessions[id]].queue).type = "speech.final"
                    /\ Last(r.M.sess[sessions[id]].queue).text = emits + 1
                    /\ \A k \in DOMAIN sess[sessions[id]].queue :
                          r.M.sess[sessions[id]].queue[k] = sess[sessions[id]].queue[k]
                    /\ \A o \in DOMAIN sess : o # sessions[id] => r.M.sess[o] = sess[o]
               ELSE r.M = MgrState

\* C15 witness: two sessions are registered and a third id is not; an event
\* has been emitted to one of the registered sessions only.
C15_Witness ==
    \E a \in DOMAIN sessions : \E b \in DOMAIN sessions :
        /\ a # b
        /\ sess[sessions[a]].puts = 2
        /\ sess[sessions[b]].puts = 1
        /\ emits = 1
        /\ \E c \in EmitIds : c \notin DOMAIN sessions

\* ---- the coordinator seen as the spec sees it: the active node of a flow
\* the nodes of the latest coordinator's flow, in declaration order
Nodes == Graph(flow).nodes

\* the position of the node that runs the agent
NodeOfAgent(agent_id) == CHOOSE k \in DOMAIN Nodes : Nodes[k].agent_id = agent_id

\* activeNodeId, as a position in Nodes; 0 before the first turn
ActiveNode == IF current_agent_id = None THEN 0 ELSE NodeOfAgent(current_agent_id)

\* the nodes on an outgoing edge of node k
Outgoing(k) ==
    {j \in DOMAIN Nodes :
        \E e \in DOMAIN Graph(flow).edges :
            /\ Graph(flow).edges[e].source = Nodes[k].id
            /\ Graph(flow).edges[e].target = Nodes[j].id}

\* a step that is a turn: process_message on the latest coordinator
Turn == Len(conversation_history') > Len(conversation_history)

\* the agents selected so far, in order
Selections == SelectSeq(conversation_history, LAMBDA h : h.role = "agent")

IsChain ==
    /\ Len(Nodes) = 3
    /\ \A k \in DOMAIN Nodes : Outgoing(k) = {j \in DOMAIN Nodes : j = k + 1}

NodeScore(k, message) ==
      (IF Contains(Lower(message), Lower(Nodes[k].label)) THEN ScoreLabel ELSE 0)
    + (IF \E w \in DOMAIN Nodes[k].role :
             Contains(Lower(message), <<Lower(Nodes[k].role)[w]>>)
       THEN ScoreRole ELSE 0)
    + (IF ActiveNode # 0 /\ k \in Outgoing(ActiveNode) THEN ScoreOutgoing ELSE 0)

\* the node declared first among those with the highest score
BestNode(message) ==
    CHOOSE k \in DOMAIN Nodes :
        /\ \A j \in DOMAIN Nodes : NodeScore(j, message) <= NodeScore(k, message)
        /\ \A j \in 1..(k - 1) : NodeScore(j, message) < NodeScore(k, message)

OutgoingIn(g, k) ==
    {e \in DOMAIN Graph(g).edges : Graph(g).edges[e].source = Graph(g).nodes[k].id}

\* the strategy the topology of graph g stands for
TopologyStrategy(g) ==
    IF \A k \in DOMAIN Graph(g).nodes : Cardinality(OutgoingIn(g, k)) <= 1
    THEN "sequential" ELSE "conditional"

C23_ActiveNodeSetIffStarted ==
    /\ ~Started => active_node_id = None
    /\ Running => active_node_id # None

\* the agents of the graph the coordinator loaded when it was started
SnapshotAgents == InitAgentsFromFlow(Graph(flow).nodes, Graph(flow).edges)

\* the agent a turn selects for a coordinator that works on its snapshot
SnapshotSelection(message) ==
    SelectAgent([agents |-> SnapshotAgents, strategy |-> strategy,
                 current |-> current_agent_id], message)

ClosedByHandoff == {i \in DOMAIN pipes : handoffs # <<>> /\ i \notin DOMAIN sessions}

EventsOfTurn(queue, i) == SelectSeq(queue, LAMBDA e : e.turn = i)

\* the events of user turns on the queue, in order
TurnEvents(queue) == SelectSeq(queue, LAMBDA e : e.turn # 0)

IsErrorEv(e) == e.type \in {"avatar.error", "agent.error"}

\* a step in which a backend call of the session fails
BackendFails ==
    \/ AttachDone("error")
    \/ AttachDone("raise")
    \/ \E i \in DOMAIN tasks : TaskRun(i, "raise")

C26_NoOrphanedLeg ==
    (close_task = "done" /\ start_task = "done") => legs = {}

\* C27: the events of each turn are on the queue as its deltas, then its
\* agent.speech, then its agent.speech.done, and no event of another turn
\* lies between two events of one turn.
C27_TurnsNotInterleaved ==
    /\ \A i \in DOMAIN tasks :
          \A a, b \in DOMAIN EventsOfTurn(session.queue, i) :
             LET ea == EventsOfTurn(session.queue, i)[a]
                 eb == EventsOfTurn(session.queue, i)[b]
             IN  a < b =>
                   /\ ea.type \in {"agent.speech.delta", "agent.speech"}
                   /\ ea.type = "agent.speech" => eb.type = "agent.speech.done"
    /\ \A a, b, c \in DOMAIN session.queue :
          (a < b /\ b < c /\ session.queue[a].turn # 0
             /\ session.queue[a].turn = session.queue[c].turn)
                => session.queue[b].turn = session.queue[a].turn

\* C28: once the close of a session has completed no message task of it
\* puts a further event on its queue.
C28_NoTurnEventAfterClose ==
    [][close_task = "done" =>
          TurnEvents(session'.queue) = TurnEvents(session.queue)]_vars

====
